---------------------------- MODULE Spec2Model ----------------------------
(***************************************************************************)
(* Model of the CloudWatch Logs log-group poller of the snapshot poller    *)
(* (PollCloudWatchLogsLogGroups, PollCloudWatchLogsLogGroup and their      *)
(* helpers) together with the provider it talks to, and of the credential  *)
(* provider described in section 4.1 of the specification.                 *)
(***************************************************************************)
EXTENDS Integers, Sequences, FiniteSets, TLC

(***************************************************************************)
(* Bounds of the model.                                                    *)
(***************************************************************************)
\* largest number of log groups the provider holds
MaxGroups == 5
\* largest value of the batch ceiling (defaultBatchSize) that is explored
MaxBatchSize == 3
\* number of log groups the provider returns in one DescribeLogGroups response
DescribeLimit == 2
\* number of concurrent callers of the credential provider
NumCallers == 3
\* last instant of the clock
MaxTime == 3
\* capacity of the S3 bucket-location cache and of the S3 client cache
CacheSize == 2
\* largest number of getS3Client calls between two resets of the caches
MaxS3Calls == 4
\* number of getClient requests in a run
MaxClientRequests == 3
\* largest number of output ids in a DeliverAlert request
MaxRequested == 2
\* largest number of configured outputs
MaxOutputs == 3
\* largest length of what a complex column type holds between its brackets
MaxTypeLen == 8

(***************************************************************************)
(* Values.                                                                 *)
(***************************************************************************)
\* a nil *string continuation token; provider tokens are page numbers >= 2
nil == 0
\* a nil error
noErr == "nil"

\* The log group names the provider may hold, in the provider's (name) order.
\* A name is a sequence of characters.
NameUniverse ==
    << <<"a">>, <<"a", "a">>, <<"a", "b">>, <<"b">>, <<"b", "a">> >>

\* CreationTime (milliseconds since the epoch) of the i-th name of the universe
CreationTimes == << 1123, 999, 1500, 0, 2999 >>

\* the unit's identity fields (pollerInput.Region, AuthSourceParsedARN.AccountID,
\* IntegrationID)
PollerRegion == "us-west-2"
PollerAccountID == "123456789012"
PollerIntegrationID == "integration-1"
\* resourceARN.Region and resourceARN.AccountID of a single-resource poll
ARNRegion == "eu-central-1"
ARNAccountID == "210987654321"
CloudWatchLogGroupSchema == "AWS.CloudWatch.LogGroup"

\* the AccountRoles credentials are requested for
AccountRoles == { "roleA", "roleB" }
\* lifetime of an assumed-role credential, and the refresh safety margin
CredentialTTL == 2
SafetyMargin == 1

VARIABLES
    \* ---- provider and configuration (fixed after Init)
    pages,              \* the provider's pagination of its log groups
    defaultBatchSize,   \* the batch ceiling
    \* ---- the unit of work in progress
    op,                 \* "none", "PollCloudWatchLogsLogGroups", "PollCloudWatchLogsLogGroup"
    pc,                 \* position inside the handler
    NextPageToken,      \* pollerInput.NextPageToken of the unit
    resourceARN,        \* resourceARN.Resource of a single-resource poll
    pager,              \* token of the next page request of DescribeLogGroupsPages
    logGroups,          \* describeLogGroups: accumulated log groups
    marker,             \* describeLogGroups: returned marker
    lastPage,           \* lastPage flag of the last callback invocation
    item,               \* number of log groups the normalization loop has passed
    resources,          \* entries built so far
    scanRequestResourceID, \* scanRequest.ResourceID of a single-resource poll
    ret,                \* the handler's return value
    \* ---- observation of the provider calls of the unit
    pageRequests,       \* NextToken of every DescribeLogGroupsPages page request
    pageSizes,          \* number of items of each page appended
    describeCalls,      \* LogGroupNamePrefix and success of every DescribeLogGroups call
    tagCalls,           \* LogGroupName of every ListTagsLogGroup call
    tagOutcomes,        \* outcome of every ListTagsLogGroup call
    callLog,            \* every call of the unit, in order, with its success
    \* ---- the token chain kept by the scheduler
    emitted,            \* batches handed off by the successful units of the chain
    \* ---- the credential provider
    now,                \* the clock
    credCache,          \* AccountRole -> cached credential
    inflight,           \* AccountRole -> an assume-role call is in flight
    assumeCalls,        \* AccountRole -> number of upstream assume-role calls
    caller,             \* caller -> its request and what it received
    \* ---- the S3 client acquisition of the log processor
    bucketCache,        \* bucket -> region, an ARC cache
    s3ClientCache,      \* (role, region) -> client, an ARC cache
    lruBuckets,         \* the buckets an exact LRU cache of the same capacity holds
    s3History,          \* the getS3Client calls since the caches were reset
    \* ---- the client cache of the pollers
    clientCache,        \* ClientCacheKey -> client handle, least recently used first
    clientRequests,     \* the getClient requests made and what each received
    \* ---- the DeliverAlert API: the last call
    inputOutputIds,     \* input.OutputIds
    fetched,            \* how alertsDB.GetAlert and delivery.GetOutputs ended
    outputIds,          \* what delivery.GetOutputs returned
    validated,          \* what validateInputs returned, if it was called
    dispatched,         \* the outputs of each delivery.DeliverAlerts call
    dispatchStatuses,   \* the statuses delivery.DeliverAlerts returned
    deliverRet,         \* what DeliverAlert returned
    \* ---- the documentation generator (mage doc)
    MaxCommentLength,   \* awsglue.MaxCommentLength
    docPc,              \* where logDocs is
    docErr,             \* how logDocs ended
    complexType,        \* the arguments of the last getTypeFields call
    colType,
    subFields           \* what it returned

pollerVars ==
    << pages, defaultBatchSize, op, pc, NextPageToken, resourceARN, pager,
       logGroups, marker, lastPage, item, resources, scanRequestResourceID,
       ret, pageRequests, pageSizes,
       describeCalls, tagCalls, tagOutcomes, callLog, emitted >>

credVars == << now, credCache, inflight, assumeCalls, caller >>

s3Vars == << bucketCache, s3ClientCache, lruBuckets, s3History >>

clientVars == << clientCache, clientRequests >>

deliverVars ==
    << inputOutputIds, fetched, outputIds, validated, dispatched, dispatchStatuses,
       deliverRet >>

docVars == << MaxCommentLength, docPc, docErr, complexType, colType, subFields >>

vars == << pollerVars, credVars, s3Vars, clientVars, deliverVars, docVars >>

(***************************************************************************)
(* Sequence helpers.                                                       *)
(***************************************************************************)
RECURSIVE SortedSeq(_)
SortedSeq(S) ==
    IF S = {} THEN << >>
    ELSE LET m == CHOOSE x \in S : \A y \in S : x <= y
         IN  << m >> \o SortedSeq(S \ {m})

RECURSIVE Flatten(_)
Flatten(ss) ==
    IF ss = << >> THEN << >> ELSE Head(ss) \o Flatten(Tail(ss))

Range(s) == { s[i] : i \in 1..Len(s) }

IsPrefix(p, s) == Len(p) <= Len(s) /\ SubSeq(s, 1, Len(p)) = p

(***************************************************************************)
(* The provider.                                                           *)
(***************************************************************************)
\* a log group as the provider describes it
LogGroupOf(i) ==
    [ LogGroupName |-> NameUniverse[i],
      Arn          |-> << "log-group:" >> \o NameUniverse[i] \o << ":", "*" >>,
      CreationTime |-> CreationTimes[i] ]

\* the pages a provider holding the groups `idx` (sorted indices) serves when
\* it cuts its listing after the positions in `cuts`
PagesOf(idx, cuts) ==
    LET n      == Len(idx)
        ends   == SortedSeq(cuts \cup {n})
        start(k) == IF k = 1 THEN 1 ELSE ends[k - 1] + 1
    IN  [ k \in 1..Len(ends) |->
            [ j \in 1..(ends[k] - start(k) + 1) |-> LogGroupOf(idx[start(k) + j - 1]) ] ]

\* all log groups of the provider, in its order
AllLogGroups == Flatten(pages)

\* the page a request with the given NextToken is answered with
PageOfToken(tok) == IF tok = nil THEN 1 ELSE tok
\* the NextToken the provider attaches to its k-th page (nil on the last one)
NextTokenOfPage(k) == IF k < Len(pages) THEN k + 1 ELSE nil


\* the response to DescribeLogGroups(LogGroupNamePrefix = prefix): the first
\* DescribeLimit log groups, in the provider's order, whose name has the prefix
RECURSIVE FilterPrefix(_, _)
FilterPrefix(gs, prefix) ==
    IF gs = << >> THEN << >>
    ELSE IF IsPrefix(prefix, Head(gs).LogGroupName)
         THEN << Head(gs) >> \o FilterPrefix(Tail(gs), prefix)
         ELSE FilterPrefix(Tail(gs), prefix)

DescribeLogGroupsOutput(prefix) ==
    LET all == FilterPrefix(AllLogGroups, prefix)
    IN  SubSeq(all, 1, IF Len(all) < DescribeLimit THEN Len(all) ELSE DescribeLimit)

\* the outcomes of a ListTagsLogGroup call: the tags, a transient failure, or
\* the group no longer exists
TagOutcomes == { "ok", "ThrottlingException", "ResourceNotFoundException" }

\* the tags the provider holds for a log group
TagsOf(name) == [ owner |-> name ]

(***************************************************************************)
(* Pure parts of the poller.                                               *)
(***************************************************************************)
\* the value every handler returns: resources (empty when nil), marker, err
Result(res, mk, e) == [ resources |-> res, marker |-> mk, err |-> e ]
NoResult == Result(<< >>, nil, "pending")

\* variant of TrimLogGroupPrefix that leaves the prefix in place
TrimLogGroupPrefix_None(resource) == resource

\* strings.TrimPrefix(resource, "log-group:")
TrimLogGroupPrefix(resource) ==
    IF resource # << >> /\ Head(resource) = "log-group:" THEN Tail(resource)
    ELSE resource

\* strings.Split(s, ":")[0]
RECURSIVE SplitFirst(_)
SplitFirst(s) ==
    IF s = << >> \/ Head(s) = ":" THEN << >>
    ELSE << Head(s) >> \o SplitFirst(Tail(s))

\* the log group name PollCloudWatchLogsLogGroup looks up
LogGroupNameOfARN(resource) == SplitFirst(TrimLogGroupPrefix(resource))

\* variant of FirstNamed that takes the first group of the response, without
\* comparing its name with the requested one
FirstNamed_Prefix(gs, name) ==
    IF gs = << >> THEN << >> ELSE << Head(gs) >>

\* getLogGroup's search of the response: the first group with exactly the
\* requested name, as a sequence of length 0 (nil) or 1
RECURSIVE FirstNamed(_, _)
FirstNamed(gs, name) ==
    IF gs = << >> THEN << >>
    ELSE IF Head(gs).LogGroupName = name THEN << Head(gs) >>
         ELSE FirstNamed(Tail(gs), name)

\* variant of CeilingReached that stops only above the ceiling
CeilingReached_Strict(n) == n > defaultBatchSize

\* the ceiling test of the page callback
CeilingReached(n) == n >= defaultBatchSize

\* variant of MarkerAtCeiling with the lastPage test inverted
MarkerAtCeiling_Inverted(pageNextToken, isLast) ==
    IF isLast THEN pageNextToken ELSE nil

\* the marker the page callback leaves when it stops at the ceiling
MarkerAtCeiling(pageNextToken, isLast) ==
    IF ~isLast THEN pageNextToken ELSE nil

\* variant of PageCallback that cuts the accumulated groups at the ceiling
PageCallback_HardCap(acc, page, pageNextToken, isLast) ==
    LET all == acc \o page
    IN  IF CeilingReached(Len(all))
        THEN [ logGroups |-> SubSeq(all, 1, defaultBatchSize),
               marker    |-> MarkerAtCeiling(pageNextToken, isLast),
               continue  |-> FALSE ]
        ELSE [ logGroups |-> all, marker |-> nil, continue |-> TRUE ]

\* the page callback of describeLogGroups: append the page, test the ceiling
PageCallback(acc, page, pageNextToken, isLast) ==
    LET all == acc \o page
    IN  IF CeilingReached(Len(all))
        THEN [ logGroups |-> all,
               marker    |-> MarkerAtCeiling(pageNextToken, isLast),
               continue  |-> FALSE ]
        ELSE [ logGroups |-> all, marker |-> nil, continue |-> TRUE ]

\* variant of MillisToSeconds that rounds to the nearest second
MillisToSeconds_Rounded(ms) == (ms + 500) \div 1000

\* milliseconds to seconds
MillisToSeconds(ms) == ms \div 1000

\* buildCloudWatchLogsLogGroupSnapshot: the snapshot (a sequence of length 0
\* when nil) and the error, given the outcome of the ListTagsLogGroup call
BuildSnapshot(lg, outcome) ==
    IF outcome # "ok"
    THEN [ snapshot |-> << >>, err |-> "CloudWatchLogs ListTagsLogGroup" ]
    ELSE [ snapshot |->
             << [ ResourceID   |-> lg.Arn,
                  ResourceType |-> CloudWatchLogGroupSchema,
                  TimeCreated  |-> MillisToSeconds(lg.CreationTime),
                  Name         |-> lg.LogGroupName,
                  ARN          |-> lg.Arn,
                  Tags         |-> TagsOf(lg.LogGroupName),
                  AccountID    |-> "",
                  Region       |-> "" ] >>,
           err |-> noErr ]

\* variant of AddResourceEntry that leaves the snapshot as it was built
AddResourceEntry_Unstamped(snapshot) ==
    [ Attributes    |-> snapshot,
      ID            |-> snapshot.ResourceID,
      IntegrationID |-> PollerIntegrationID,
      Type          |-> CloudWatchLogGroupSchema ]

\* the entry PollCloudWatchLogsLogGroups appends for a snapshot
AddResourceEntry(snapshot) ==
    [ Attributes    |-> [ snapshot EXCEPT !.AccountID = PollerAccountID,
                                          !.Region = PollerRegion ],
      ID            |-> snapshot.ResourceID,
      IntegrationID |-> PollerIntegrationID,
      Type          |-> CloudWatchLogGroupSchema ]

\* variant of LoopIteration that returns the entries built before the failure
LoopIteration_Partial(res, lg, outcome) ==
    LET b == BuildSnapshot(lg, outcome)
    IN  IF b.err # noErr
        THEN [ return |-> TRUE, resources |-> res, err |-> b.err ]
        ELSE [ return |-> FALSE,
               resources |-> Append(res, AddResourceEntry(b.snapshot[1])),
               err |-> noErr ]

\* variant of LoopIteration that passes over a log group whose snapshot failed
LoopIteration_Skip(res, lg, outcome) ==
    LET b == BuildSnapshot(lg, outcome)
    IN  IF b.err # noErr
        THEN [ return |-> FALSE, resources |-> res, err |-> noErr ]
        ELSE [ return |-> FALSE,
               resources |-> Append(res, AddResourceEntry(b.snapshot[1])),
               err |-> noErr ]

\* variant of LoopIteration that passes over a log group that no longer exists
LoopIteration_SkipNotFound(res, lg, outcome) ==
    LET b == BuildSnapshot(lg, outcome)
    IN  IF outcome = "ResourceNotFoundException"
        THEN [ return |-> FALSE, resources |-> res, err |-> noErr ]
        ELSE IF b.err # noErr
        THEN [ return |-> TRUE, resources |-> << >>, err |-> b.err ]
        ELSE [ return |-> FALSE,
               resources |-> Append(res, AddResourceEntry(b.snapshot[1])),
               err |-> noErr ]

\* one iteration of the normalization loop of PollCloudWatchLogsLogGroups:
\* whether the handler returns, and the entries after the iteration
LoopIteration(res, lg, outcome) ==
    LET b == BuildSnapshot(lg, outcome)
    IN  IF b.err # noErr
        THEN [ return |-> TRUE, resources |-> << >>, err |-> b.err ]
        ELSE [ return |-> FALSE,
               resources |-> Append(res, AddResourceEntry(b.snapshot[1])),
               err |-> noErr ]

\* the resource identifiers of a batch
BatchIDs(res) == [ i \in 1..Len(res) |-> res[i].ID ]

(***************************************************************************)
(* Initial states: any provider content of at most MaxGroups log groups,   *)
(* any partition of it into pages, any batch ceiling; no unit submitted.   *)
(***************************************************************************)
\* the locals of a handler before it starts and after it has returned
ClearLocals ==
    /\ pager' = nil
    /\ logGroups' = << >>
    /\ marker' = nil
    /\ lastPage' = FALSE
    /\ item' = 0
    /\ resources' = << >>

ClearCalls ==
    /\ pageRequests' = << >>
    /\ pageSizes' = << >>
    /\ describeCalls' = << >>
    /\ tagCalls' = << >>
    /\ tagOutcomes' = << >>
    /\ callLog' = << >>

callVars ==
    << pageRequests, pageSizes, describeCalls, tagCalls, tagOutcomes, callLog >>

Call(api, ok) == [ api |-> api, ok |-> ok ]

\* variant of ListTagsCall that writes the tags of the log group
ListTagsCall_Tagging(ok) == Call("TagLogGroup", ok)

\* listTagsLogGroup: the provider call it makes
ListTagsCall(ok) == Call("ListTagsLogGroup", ok)
localVars == << pager, logGroups, marker, lastPage, item, resources >>
providerVars == << pages, defaultBatchSize >>
inputVars == << op, NextPageToken, resourceARN >>

\* the resourceARN.Resource values a single-resource poll is asked for
ARNResources ==
    UNION { { << "log-group:" >> \o NameUniverse[i] \o << ":", "*" >>,
              << "log-group:" >> \o NameUniverse[i] } : i \in 1..Len(NameUniverse) }

\* no unit submitted
PollerParked ==
    /\ op = "none"
    /\ pc = "idle"
    /\ NextPageToken = nil
    /\ resourceARN = << >>
    /\ pager = nil
    /\ logGroups = << >>
    /\ marker = nil
    /\ lastPage = FALSE
    /\ item = 0
    /\ resources = << >>
    /\ scanRequestResourceID = << >>
    /\ ret = NoResult
    /\ pageRequests = << >>
    /\ pageSizes = << >>
    /\ describeCalls = << >>
    /\ tagCalls = << >>
    /\ tagOutcomes = << >>
    /\ callLog = << >>
    /\ emitted = << >>

PollerInit ==
    /\ \E S \in SUBSET (1..Len(NameUniverse)) :
         /\ Cardinality(S) <= MaxGroups
         /\ \E cuts \in SUBSET (1..(Cardinality(S) - 1)) :
              pages = IF S = {} THEN << << >> >> ELSE PagesOf(SortedSeq(S), cuts)
    /\ defaultBatchSize \in 1..MaxBatchSize
    /\ PollerParked

(***************************************************************************)
(* The scheduler.                                                          *)
(***************************************************************************)
\* a fresh ScanUnit for all log groups: no continuation token
SubmitScan ==
    /\ pc = "idle"
    /\ op' = "PollCloudWatchLogsLogGroups"
    /\ NextPageToken' = nil
    /\ pc' = "getClient"
    /\ emitted' = << >>
    /\ ret' = NoResult
    /\ ClearLocals /\ ClearCalls
    /\ UNCHANGED << providerVars, resourceARN, scanRequestResourceID >>

\* a scan of one log group, named by its ARN
SubmitResourceScan ==
    /\ pc = "idle"
    /\ \E r \in ARNResources :
         /\ resourceARN' = r
         /\ scanRequestResourceID' = r
    /\ op' = "PollCloudWatchLogsLogGroup"
    /\ NextPageToken' = nil
    /\ pc' = "getClient"
    /\ emitted' = << >>
    /\ ret' = NoResult
    /\ ClearLocals /\ ClearCalls
    /\ UNCHANGED << providerVars >>

\* more work remains: the unit is reborn with the returned token
Resubmit ==
    /\ pc = "done"
    /\ op = "PollCloudWatchLogsLogGroups"
    /\ ret.err = noErr
    /\ ret.marker # nil
    /\ NextPageToken' = ret.marker
    /\ pc' = "getClient"
    /\ ret' = NoResult
    /\ ClearLocals /\ ClearCalls
    /\ UNCHANGED << providerVars, op, resourceARN, scanRequestResourceID, emitted >>

\* a failed unit is submitted again as it was
Retry ==
    /\ pc = "done"
    /\ op = "PollCloudWatchLogsLogGroups"
    /\ ret.err # noErr
    /\ pc' = "getClient"
    /\ ret' = NoResult
    /\ ClearLocals /\ ClearCalls
    /\ UNCHANGED << providerVars, op, NextPageToken, resourceARN,
                    scanRequestResourceID, emitted >>

\* the scheduler drops the finished unit
Forget ==
    /\ pc = "done"
    /\ op' = "none"
    /\ pc' = "idle"
    /\ NextPageToken' = nil
    /\ resourceARN' = << >>
    /\ scanRequestResourceID' = << >>
    /\ ret' = NoResult
    /\ emitted' = << >>
    /\ ClearLocals /\ ClearCalls
    /\ UNCHANGED << providerVars >>

(***************************************************************************)
(* The handlers.                                                           *)
(***************************************************************************)
\* variant of FirstPageToken that starts every unit at the first page
FirstPageToken_Dropped(nextMarker) == nil

\* the NextToken of the first page request of describeLogGroups
FirstPageToken(nextMarker) == nextMarker

\* variant of DescribeLogGroupsFailed that keeps what was accumulated and
\* reports no error
DescribeLogGroupsFailed_Partial(acc, mk) ==
    [ logGroups |-> acc, marker |-> mk, err |-> noErr ]

\* describeLogGroups when a page request of DescribeLogGroupsPages fails, given
\* what the callback had accumulated: nil, nil and the wrapped error
DescribeLogGroupsFailed(acc, mk) ==
    [ logGroups |-> << >>, marker |-> nil, err |-> "CloudWatchLogs.DescribeLogGroups" ]

\* where a handler goes once it has its client
AfterClient(o) ==
    IF o = "PollCloudWatchLogsLogGroups" THEN "describeLogGroups" ELSE "getLogGroup"

\* getCloudWatchLogsClient: the client, or the error of getClient
GetCloudWatchLogsClient ==
    /\ pc = "getClient"
    /\ \E ok \in BOOLEAN :
         /\ callLog' = Append(callLog, Call("getClient", ok))
         /\ IF ok
            THEN /\ pc' = AfterClient(op)
                 /\ pager' = FirstPageToken(NextPageToken)
                 /\ UNCHANGED << ret, logGroups, marker, lastPage, item, resources >>
            ELSE /\ pc' = "done"
                 /\ ret' = Result(<< >>, nil, "getClient")
                 /\ ClearLocals
    /\ UNCHANGED << providerVars, inputVars, scanRequestResourceID, pageRequests,
                    pageSizes, describeCalls, tagCalls, tagOutcomes, emitted >>

\* describeLogGroups: one page request of DescribeLogGroupsPages and the
\* callback on its page, or the failure of the request
DescribeLogGroupsPage ==
    /\ pc = "describeLogGroups"
    /\ pageRequests' = Append(pageRequests, pager)
    /\ \E ok \in BOOLEAN :
         /\ callLog' = Append(callLog, Call("DescribeLogGroupsPages", ok))
         /\ IF ok
            THEN LET k      == PageOfToken(pager)
                     isLast == NextTokenOfPage(k) = nil
                     cb     == PageCallback(logGroups, pages[k],
                                            NextTokenOfPage(k), isLast)
                 IN  /\ logGroups' = cb.logGroups
                     /\ marker' = cb.marker
                     /\ lastPage' = isLast
                     /\ pageSizes' = Append(pageSizes, Len(pages[k]))
                     /\ IF cb.continue /\ ~isLast
                        THEN /\ pager' = NextTokenOfPage(k)
                             /\ pc' = "describeLogGroups"
                        ELSE /\ pager' = pager
                             /\ pc' = "buildSnapshots"
                     /\ UNCHANGED << ret, item, resources >>
            ELSE LET d == DescribeLogGroupsFailed(logGroups, marker)
                 IN  /\ UNCHANGED pageSizes
                     /\ IF d.err # noErr
                        THEN /\ pc' = "done"
                             /\ ret' = Result(<< >>, nil, d.err)
                             /\ ClearLocals
                        ELSE /\ pc' = "buildSnapshots"
                             /\ logGroups' = d.logGroups
                             /\ marker' = d.marker
                             /\ UNCHANGED << ret, pager, lastPage, item, resources >>
    /\ UNCHANGED << providerVars, inputVars, scanRequestResourceID,
                    describeCalls, tagCalls, tagOutcomes, emitted >>

\* PollCloudWatchLogsLogGroups: one iteration of the loop over logGroups
BuildSnapshotOfNext ==
    /\ pc = "buildSnapshots"
    /\ item < Len(logGroups)
    /\ \E outcome \in TagOutcomes :
         LET lg == logGroups[item + 1]
             it == LoopIteration(resources, lg, outcome)
         IN  /\ tagCalls' = Append(tagCalls, lg.LogGroupName)
             /\ tagOutcomes' = Append(tagOutcomes, outcome)
             /\ callLog' = Append(callLog, ListTagsCall(outcome = "ok"))
             /\ IF it.return
                THEN /\ pc' = "done"
                     /\ ret' = Result(it.resources, nil, it.err)
                     /\ ClearLocals
                ELSE /\ pc' = "buildSnapshots"
                     /\ item' = item + 1
                     /\ resources' = it.resources
                     /\ UNCHANGED << ret, pager, logGroups, marker, lastPage >>
    /\ UNCHANGED << providerVars, inputVars, scanRequestResourceID,
                    pageRequests, pageSizes, describeCalls, emitted >>

\* PollCloudWatchLogsLogGroups: return resources, marker, nil
ReturnResources ==
    /\ pc = "buildSnapshots"
    /\ item >= Len(logGroups)
    /\ pc' = "done"
    /\ ret' = Result(resources, marker, noErr)
    /\ emitted' = Append(emitted, BatchIDs(resources))
    /\ ClearLocals
    /\ UNCHANGED << providerVars, inputVars, scanRequestResourceID, callVars >>

\* getLogGroup: the DescribeLogGroups call and the search of its response
GetLogGroup ==
    /\ pc = "getLogGroup"
    /\ LET lgName == LogGroupNameOfARN(resourceARN)
       IN  \E ok \in BOOLEAN :
             /\ describeCalls' = Append(describeCalls, [ prefix |-> lgName, ok |-> ok ])
             /\ callLog' = Append(callLog, Call("DescribeLogGroups", ok))
             /\ IF ~ok
                THEN /\ pc' = "done"
                     /\ ret' = Result(<< >>, nil, "CloudWatchLogs.DescribeLogGroups")
                     /\ UNCHANGED logGroups
                ELSE LET found == FirstNamed(DescribeLogGroupsOutput(lgName), lgName)
                     IN  IF found = << >>
                         THEN /\ pc' = "done"
                              /\ ret' = Result(<< >>, nil, noErr)
                              /\ UNCHANGED logGroups
                         ELSE /\ pc' = "buildSnapshot"
                              /\ logGroups' = found
                              /\ UNCHANGED ret
    /\ UNCHANGED << providerVars, inputVars, scanRequestResourceID, pager, marker,
                    lastPage, item, resources, pageRequests, pageSizes, tagCalls,
                    tagOutcomes, emitted >>

\* PollCloudWatchLogsLogGroup: build the snapshot of the group found
BuildSnapshotOfGroup ==
    /\ pc = "buildSnapshot"
    /\ \E outcome \in TagOutcomes :
         LET lg == logGroups[1]
             b  == BuildSnapshot(lg, outcome)
         IN  /\ tagCalls' = Append(tagCalls, lg.LogGroupName)
             /\ tagOutcomes' = Append(tagOutcomes, outcome)
             /\ callLog' = Append(callLog, ListTagsCall(outcome = "ok"))
             /\ pc' = "done"
             /\ IF b.err # noErr
                THEN /\ ret' = Result(<< >>, nil, b.err)
                     /\ UNCHANGED scanRequestResourceID
                ELSE /\ ret' = Result(<< [ b.snapshot[1] EXCEPT
                                             !.Region = ARNRegion,
                                             !.AccountID = ARNAccountID ] >>,
                                      nil, noErr)
                     /\ scanRequestResourceID' = b.snapshot[1].ARN
             /\ ClearLocals
    /\ UNCHANGED << providerVars, inputVars, pageRequests, pageSizes,
                    describeCalls, emitted >>

(***************************************************************************)
(* The credential provider (section 4.1): obtain(AccountRole) returns the  *)
(* cached credential while now < expiry - safetyMargin and refreshes       *)
(* otherwise; callers arriving during a refresh wait for its result.       *)
(***************************************************************************)
Callers == 1..NumCallers

NoCredential == [ present |-> FALSE, id |-> 0, expiry |-> 0 ]
IdleCaller == [ pc |-> "idle", role |-> "", id |-> 0, sawEntry |-> FALSE ]

CredInit ==
    /\ now = 0
    /\ credCache = [ r \in AccountRoles |-> NoCredential ]
    /\ inflight = [ r \in AccountRoles |-> FALSE ]
    /\ assumeCalls = [ r \in AccountRoles |-> 0 ]
    /\ caller = [ p \in Callers |-> IdleCaller ]

\* the cached credential may still be handed out
CacheValid(r) ==
    /\ credCache[r].present
    /\ now < credCache[r].expiry - SafetyMargin

\* variant of StartsRefresh in which every caller that misses the cache
\* issues its own assume-role call
StartsRefresh_Always(r) == TRUE

\* a caller that misses the cache issues the assume-role call unless one is
\* in flight for the AccountRole
StartsRefresh(r) == ~inflight[r]

\* obtain(AccountRole) is called
Obtain ==
    \E p \in Callers, r \in AccountRoles :
        /\ caller[p].pc = "idle"
        /\ IF CacheValid(r)
           THEN /\ caller' = [ caller EXCEPT ![p] =
                                 [ pc |-> "got", role |-> r, id |-> credCache[r].id,
                                   sawEntry |-> TRUE ] ]
                /\ UNCHANGED << inflight, assumeCalls >>
           ELSE /\ caller' = [ caller EXCEPT ![p] =
                                 [ pc |-> "waiting", role |-> r, id |-> 0,
                                   sawEntry |-> credCache[r].present ] ]
                /\ IF StartsRefresh(r)
                   THEN /\ inflight' = [ inflight EXCEPT ![r] = TRUE ]
                        /\ assumeCalls' = [ assumeCalls EXCEPT ![r] = @ + 1 ]
                   ELSE UNCHANGED << inflight, assumeCalls >>
        /\ UNCHANGED << now, credCache >>

\* the assume-role call in flight returns: all waiting callers get its result
AssumeRoleReturns ==
    \E r \in AccountRoles, ok \in BOOLEAN :
        /\ inflight[r]
        /\ inflight' = [ inflight EXCEPT ![r] = FALSE ]
        /\ IF ok
           THEN /\ credCache' = [ credCache EXCEPT ![r] =
                                    [ present |-> TRUE, id |-> assumeCalls[r],
                                      expiry |-> now + CredentialTTL ] ]
                /\ caller' = [ p \in Callers |->
                                 IF caller[p].pc = "waiting" /\ caller[p].role = r
                                 THEN [ caller[p] EXCEPT !.pc = "got",
                                                         !.id = assumeCalls[r] ]
                                 ELSE caller[p] ]
           ELSE /\ caller' = [ p \in Callers |->
                                 IF caller[p].pc = "waiting" /\ caller[p].role = r
                                 THEN [ caller[p] EXCEPT !.pc = "failed" ]
                                 ELSE caller[p] ]
                /\ UNCHANGED credCache
        /\ UNCHANGED << now, assumeCalls >>

\* time passes
Tick ==
    /\ now < MaxTime
    /\ now' = now + 1
    /\ UNCHANGED << credCache, inflight, assumeCalls, caller >>

(***************************************************************************)
(* The caches of getS3Client: resetCaches builds both with lru.NewARC, the *)
(* adaptive replacement cache: T1 holds keys seen once, T2 keys seen more  *)
(* than once, B1 and B2 the keys evicted from them, p the target size of   *)
(* T1.  Lists are kept oldest first.                                       *)
(***************************************************************************)
\* lru.NewARC(size)
NewARC == [ t1 |-> << >>, t2 |-> << >>, b1 |-> << >>, b2 |-> << >>, p |-> 0 ]

Entry(k, v) == [ key |-> k, val |-> v ]
Keys(list) == { list[i].key : i \in 1..Len(list) }

RECURSIVE RemoveKey(_, _)
RemoveKey(list, k) ==
    IF list = << >> THEN << >>
    ELSE IF Head(list).key = k THEN RemoveKey(Tail(list), k)
         ELSE << Head(list) >> \o RemoveKey(Tail(list), k)

\* where a list holds a key it contains
ValueIn(list, k) == (CHOOSE i \in 1..Len(list) : list[i].key = k)

\* simplelru Add: the entry becomes the newest of the list; the oldest entry
\* leaves a list that has outgrown its size
LRUAdd(list, k, v) ==
    LET added == Append(RemoveKey(list, k), Entry(k, v))
    IN  IF Len(added) > CacheSize THEN Tail(added) ELSE added

\* variant of ARCReplace that evicts the newest key of the chosen list
ARCReplace_Newest(c, b2ContainsKey) ==
    IF Len(c.t1) > 0 /\ (Len(c.t1) > c.p \/ (Len(c.t1) = c.p /\ b2ContainsKey))
    THEN [ c EXCEPT !.t1 = SubSeq(c.t1, 1, Len(c.t1) - 1),
                    !.b1 = LRUAdd(c.b1, c.t1[Len(c.t1)].key, "") ]
    ELSE IF Len(c.t2) > 0
         THEN [ c EXCEPT !.t2 = SubSeq(c.t2, 1, Len(c.t2) - 1),
                         !.b2 = LRUAdd(c.b2, c.t2[Len(c.t2)].key, "") ]
         ELSE c

\* ARCCache.replace: evict the oldest key of T1 or of T2 into its ghost list
ARCReplace(c, b2ContainsKey) ==
    IF Len(c.t1) > 0 /\ (Len(c.t1) > c.p \/ (Len(c.t1) = c.p /\ b2ContainsKey))
    THEN [ c EXCEPT !.t1 = Tail(c.t1),
                    !.b1 = LRUAdd(c.b1, Head(c.t1).key, "") ]
    ELSE IF Len(c.t2) > 0
         THEN [ c EXCEPT !.t2 = Tail(c.t2),
                         !.b2 = LRUAdd(c.b2, Head(c.t2).key, "") ]
         ELSE c

\* the room ARCCache.Add makes before it inserts into a full cache
ARCMakeRoom(c, b2ContainsKey) ==
    IF Len(c.t1) + Len(c.t2) >= CacheSize THEN ARCReplace(c, b2ContainsKey) ELSE c

\* variant of ARCGet that never finds the key
ARCGet_Miss(c, k) == [ ok |-> FALSE, val |-> << >>, cache |-> c ]

\* ARCCache.Get: a hit in T1 promotes the key to T2, a hit in T2 makes it
\* the newest of T2; val is the value found, if any
ARCGet(c, k) ==
    IF k \in Keys(c.t1)
    THEN LET v == c.t1[ValueIn(c.t1, k)].val
         IN  [ ok |-> TRUE, val |-> << v >>,
               cache |-> [ c EXCEPT !.t1 = RemoveKey(c.t1, k),
                                    !.t2 = LRUAdd(c.t2, k, v) ] ]
    ELSE IF k \in Keys(c.t2)
    THEN LET v == c.t2[ValueIn(c.t2, k)].val
         IN  [ ok |-> TRUE, val |-> << v >>,
               cache |-> [ c EXCEPT !.t2 = LRUAdd(c.t2, k, v) ] ]
    ELSE [ ok |-> FALSE, val |-> << >>, cache |-> c ]

\* ARCCache.Add
ARCAdd(c, k, v) ==
    IF k \in Keys(c.t1)
    THEN [ c EXCEPT !.t1 = RemoveKey(c.t1, k), !.t2 = LRUAdd(c.t2, k, v) ]
    ELSE IF k \in Keys(c.t2)
    THEN [ c EXCEPT !.t2 = LRUAdd(c.t2, k, v) ]
    ELSE IF k \in Keys(c.b1)
    THEN LET delta == IF Len(c.b2) > Len(c.b1) THEN Len(c.b2) \div Len(c.b1) ELSE 1
             c1 == [ c EXCEPT !.p = IF c.p + delta >= CacheSize THEN CacheSize
                                    ELSE c.p + delta ]
             c2 == ARCMakeRoom(c1, FALSE)
         IN  [ c2 EXCEPT !.b1 = RemoveKey(c2.b1, k), !.t2 = LRUAdd(c2.t2, k, v) ]
    ELSE IF k \in Keys(c.b2)
    THEN LET delta == IF Len(c.b1) > Len(c.b2) THEN Len(c.b1) \div Len(c.b2) ELSE 1
             c1 == [ c EXCEPT !.p = IF delta >= c.p THEN 0 ELSE c.p - delta ]
             c2 == ARCMakeRoom(c1, TRUE)
         IN  [ c2 EXCEPT !.b2 = RemoveKey(c2.b2, k), !.t2 = LRUAdd(c2.t2, k, v) ]
    ELSE LET c1 == ARCMakeRoom(c, FALSE)
             c2 == IF Len(c1.b1) > CacheSize - c1.p
                   THEN [ c1 EXCEPT !.b1 = Tail(c1.b1) ] ELSE c1
             c3 == IF Len(c2.b2) > c2.p
                   THEN [ c2 EXCEPT !.b2 = Tail(c2.b2) ] ELSE c2
         IN  [ c3 EXCEPT !.t1 = LRUAdd(c3.t1, k, v) ]

\* the keys the cache can serve
Resident(c) == Keys(c.t1) \cup Keys(c.t2)

(***************************************************************************)
(* An exact LRU cache of the same capacity, as a list of keys, least       *)
(* recently used first: the policy section 4.2 describes.                  *)
(***************************************************************************)
RECURSIVE WithoutKey(_, _)
WithoutKey(ks, k) ==
    IF ks = << >> THEN << >>
    ELSE IF Head(ks) = k THEN WithoutKey(Tail(ks), k)
         ELSE << Head(ks) >> \o WithoutKey(Tail(ks), k)

\* get or insert: the key becomes the most recently used
LRUTouch(ks, k) ==
    LET touched == Append(WithoutKey(ks, k), k)
    IN  IF Len(touched) > CacheSize THEN Tail(touched) ELSE touched

(***************************************************************************)
(* getS3Client.                                                            *)
(***************************************************************************)
\* the buckets objects arrive from: one more than the caches hold
Buckets == 1..(CacheSize + 1)
\* the region GetBucketLocation reports for a bucket
BucketRegion(b) == IF b % 2 = 1 THEN "us-west-2" ELSE "eu-west-1"
\* the source integrations, one with an S3 prefix and one without
Integrations ==
    { [ LogProcessingRole |-> "role1", S3Prefix |-> "prefix" ],
      [ LogProcessingRole |-> "role2", S3Prefix |-> "" ] }

S3Init ==
    /\ bucketCache = NewARC
    /\ s3ClientCache = NewARC
    /\ lruBuckets = << >>
    /\ s3History = << >>

\* resetCaches
ResetCaches ==
    /\ s3History # << >>
    /\ bucketCache' = NewARC
    /\ s3ClientCache' = NewARC
    /\ lruBuckets' = << >>
    /\ s3History' = << >>

\* the client for (role, region), from the cache or newly built and added
ClientLookup(c, role, region) ==
    LET key == << role, region >>
        got == ARCGet(c, key)
        built == [ role |-> role, region |-> region ]
    IN  IF got.ok THEN [ client |-> got.val, cache |-> got.cache ]
        ELSE [ client |-> << built >>, cache |-> ARCAdd(got.cache, key, built) ]

\* what one getS3Client call leaves in the history
S3Call(b, integration, located, client, e) ==
    [ bucket |-> b, integration |-> integration, located |-> located,
      client |-> client, err |-> e ]

\* getS3Client(s3Object, integration): the bucket's region from the cache or
\* from GetBucketLocation, then the client from the cache or newly built
GetS3Client ==
    /\ Len(s3History) < MaxS3Calls
    /\ \E b \in Buckets, integration \in Integrations, ok \in BOOLEAN :
         LET got == ARCGet(bucketCache, b)
             role == integration.LogProcessingRole
         IN  IF got.ok
             THEN LET found == ClientLookup(s3ClientCache, role, got.val[1])
                  IN  /\ ok
                      /\ bucketCache' = got.cache
                      /\ lruBuckets' = LRUTouch(lruBuckets, b)
                      /\ s3ClientCache' = found.cache
                      /\ s3History' = Append(s3History,
                             S3Call(b, integration, FALSE, found.client, noErr))
             ELSE IF ok
             THEN LET found == ClientLookup(s3ClientCache, role, BucketRegion(b))
                  IN  /\ bucketCache' = ARCAdd(got.cache, b, BucketRegion(b))
                      /\ lruBuckets' = LRUTouch(lruBuckets, b)
                      /\ s3ClientCache' = found.cache
                      /\ s3History' = Append(s3History,
                             S3Call(b, integration, TRUE, found.client, noErr))
             ELSE /\ bucketCache' = got.cache
                  /\ UNCHANGED << s3ClientCache, lruBuckets >>
                  /\ s3History' = Append(s3History,
                         S3Call(b, integration, TRUE, << >>, "GetBucketLocation"))

(***************************************************************************)
(* getClient(service, region, AccountRole), which getCloudWatchLogsClient  *)
(* calls with the poller input's role.                                     *)
(***************************************************************************)
Services == { "cloudwatchlogs", "s3" }
Regions == { "us-west-2", "eu-west-1" }

\* variant of ClientCacheKey that leaves the AccountRole out
ClientCacheKey_NoRole(service, region, role) == << service, region >>

ClientCacheKey(service, region, role) == << service, region, role >>

\* the handle built with the credentials of a role
NewClient(service, region, role) ==
    [ service |-> service, region |-> region, AccountRole |-> role ]

ClientInit ==
    /\ clientCache = << >>
    /\ clientRequests = << >>

\* getClient: the cached handle of the key, else a handle built with the
\* role's credentials and cached; an error when the role cannot be assumed
GetClient ==
    /\ Len(clientRequests) < MaxClientRequests
    /\ \E service \in Services, region \in Regions, role \in AccountRoles,
          ok \in BOOLEAN :
         LET key == ClientCacheKey(service, region, role)
             request == [ service |-> service, region |-> region,
                          AccountRole |-> role ]
         IN  IF key \in Keys(clientCache)
             THEN LET client == clientCache[ValueIn(clientCache, key)].val
                  IN  /\ ok
                      /\ clientCache' = LRUAdd(clientCache, key, client)
                      /\ clientRequests' = Append(clientRequests,
                             [ request |-> request, client |-> << client >>,
                               err |-> noErr ])
             ELSE IF ok
             THEN LET client == NewClient(service, region, role)
                  IN  /\ clientCache' = LRUAdd(clientCache, key, client)
                      /\ clientRequests' = Append(clientRequests,
                             [ request |-> request, client |-> << client >>,
                               err |-> noErr ])
             ELSE /\ UNCHANGED clientCache
                  /\ clientRequests' = Append(clientRequests,
                         [ request |-> request, client |-> << >>,
                           err |-> "AuthError" ])

(***************************************************************************)
(* The DeliverAlert API.                                                   *)
(***************************************************************************)
\* the output ids requests and configurations are made of
OutputIdUniverse == { "A", "B", "C" }

\* the sequences over S of length at most n
SeqsUpTo(S, n) == UNION { [ 1..k -> S ] : k \in 0..n }

\* input.OutputIds: any ids, repeated or not
RequestedIds == SeqsUpTo(OutputIdUniverse, MaxRequested)

\* a configured output
AlertOutput(id) == [ OutputID |-> id, DisplayName |-> << "output", id >> ]

\* the configured outputs: distinct ids, in any order
ConfiguredOutputs ==
    { [ i \in 1..Len(ids) |-> AlertOutput(ids[i]) ] :
        ids \in { q \in SeqsUpTo(OutputIdUniverse, MaxOutputs) :
                    \A i, j \in 1..Len(q) : q[i] = q[j] => i = j } }

\* contains(list, outputID)
contains(list, outputID) == \E i \in 1..Len(list) : list[i].OutputID = outputID

\* validateInputs from the i-th requested id on; panic is the index
\* out of range of outputIds[i]
RECURSIVE validateFrom(_, _, _, _, _)
validateFrom(i, inputIds, outs, invalid, valid) ==
    IF i > Len(inputIds)
    THEN [ invalid |-> invalid, valid |-> valid, panic |-> FALSE ]
    ELSE IF ~contains(outs, inputIds[i])
    THEN validateFrom(i + 1, inputIds, outs, Append(invalid, inputIds[i]), valid)
    ELSE IF i > Len(outs)
    THEN [ invalid |-> invalid, valid |-> valid, panic |-> TRUE ]
    ELSE validateFrom(i + 1, inputIds, outs, invalid, Append(valid, outs[i]))

\* validateInputs(inputIds, outputIds)
validateInputs(inputIds, outs) == validateFrom(1, inputIds, outs, << >>, << >>)

\* what DeliverAlert returns: a summary (a sequence of length 0 when nil), an
\* error, or the panic that ends it
DeliverResult(summary, e, panic) ==
    [ summary |-> summary, err |-> e, panic |-> panic ]

NotCalled == DeliverResult(<< >>, "pending", FALSE)

\* the statuses delivery.DeliverAlerts returns: one for each output of the
\* alert, each a success or a failure
DispatchStatuses(outs, success) ==
    [ i \in 1..Len(outs) |->
        [ OutputID |-> outs[i].OutputID, Success |-> success[i] ] ]

\* the loop over dispatchStatuses and the summary built from the first one
AfterDelivery(statuses) ==
    IF \E i \in 1..Len(statuses) : ~statuses[i].Success
    THEN DeliverResult(<< >>, "Failed to send the alert", FALSE)
    ELSE IF statuses = << >>
    THEN DeliverResult(<< >>, noErr, TRUE)
    ELSE DeliverResult(
             << [ DeliverySuccess   |-> statuses[1].Success,
                  DeliveryResponses |-> << statuses[1] >> ] >>,
             noErr, FALSE)

\* how the two fetches of DeliverAlert ended ("" when not reached)
Fetched(getAlert, getOutputs) == [ GetAlert |-> getAlert, GetOutputs |-> getOutputs ]

DeliverInit ==
    /\ inputOutputIds = << >>
    /\ fetched = Fetched("", "")
    /\ outputIds = << >>
    /\ validated = << >>
    /\ dispatched = << >>
    /\ dispatchStatuses = << >>
    /\ deliverRet = NotCalled

\* the API is invoked for the next request
NextInvocation ==
    /\ deliverRet # NotCalled
    /\ inputOutputIds' = << >>
    /\ fetched' = Fetched("", "")
    /\ outputIds' = << >>
    /\ validated' = << >>
    /\ dispatched' = << >>
    /\ dispatchStatuses' = << >>
    /\ deliverRet' = NotCalled

\* DeliverAlert(input)
DeliverAlert ==
    /\ deliverRet = NotCalled
    /\ \E ids \in RequestedIds, outs \in ConfiguredOutputs,
          getAlert \in { "error", "not found", "found" }, getOutputsOk \in BOOLEAN,
          success \in [ 1..MaxRequested -> BOOLEAN ] :
           /\ inputOutputIds' = ids
           /\ IF getAlert # "found"
              THEN /\ deliverRet' =
                        DeliverResult(<< >>,
                            IF getAlert = "error" THEN "GetAlert"
                            ELSE "Unable to find the specified alert!", FALSE)
                   /\ fetched' = Fetched(getAlert, "")
                   /\ outputIds' = << >>
                   /\ validated' = << >>
                   /\ dispatched' = << >>
                   /\ dispatchStatuses' = << >>
              ELSE IF ~getOutputsOk
              THEN /\ deliverRet' = DeliverResult(<< >>, "GetOutputs", FALSE)
                   /\ fetched' = Fetched(getAlert, "error")
                   /\ outputIds' = << >>
                   /\ validated' = << >>
                   /\ dispatched' = << >>
                   /\ dispatchStatuses' = << >>
              ELSE LET v == validateInputs(ids, outs)
                       statuses == DispatchStatuses(v.valid, success)
                   IN  /\ fetched' = Fetched(getAlert, "ok")
                       /\ outputIds' = outs
                       /\ validated' = << v >>
                       /\ IF v.panic
                          THEN /\ deliverRet' = DeliverResult(<< >>, noErr, TRUE)
                               /\ dispatched' = << >>
                               /\ dispatchStatuses' = << >>
                          ELSE IF Len(v.invalid) > 0
                          THEN /\ deliverRet' = DeliverResult(<< >>, "Invalid destination(s) specified!", FALSE)
                               /\ dispatched' = << >>
                               /\ dispatchStatuses' = << >>
                          ELSE /\ dispatched' = << v.valid >>
                               /\ dispatchStatuses' = statuses
                               /\ deliverRet' = AfterDelivery(statuses)

(***************************************************************************)
(* The documentation generator: logDocs and getTypeFields.  A string is a  *)
(* sequence of characters.                                                 *)
(***************************************************************************)
\* math.MaxInt32
MaxInt32 == 2147483647
\* awsglue.DefaultMaxCommentLength
DefaultMaxCommentLength == 255

\* the complex types of the pretty printer
ComplexTypes ==
    { << "a", "r", "r", "a", "y" >>, << "m", "a", "p" >>,
      << "s", "t", "r", "u", "c", "t" >> }

\* the characters of a type definition: a letter, and the punctuation
TypeChars == { "a", ",", "<", ">" }

\* the number of brackets open after the first i characters
RECURSIVE DepthAt(_, _)
DepthAt(q, i) ==
    IF i = 0 THEN 0
    ELSE DepthAt(q, i - 1)
         + (IF q[i] = "<" THEN 1 ELSE IF q[i] = ">" THEN -1 ELSE 0)

\* every bracket is closed and none is closed before it is opened
Balanced(q) ==
    /\ DepthAt(q, Len(q)) = 0
    /\ \A i \in 1..Len(q) : DepthAt(q, i) >= 0

\* a list of types separated by commas, each a name or a name followed by
\* such a list in brackets
WellFormedTypes(q) ==
    /\ q # << >>
    /\ q[1] = "a"
    /\ q[Len(q)] \in { "a", ">" }
    /\ \A i \in 1..(Len(q) - 1) :
          /\ q[i] \in { "<", "," } => q[i + 1] = "a"
          /\ q[i] = ">" => q[i + 1] \in { ",", ">" }
    /\ Balanced(q)

\* what the column types of the registry hold between their brackets
InnerTypes ==
    { q \in UNION { [ 1..k -> TypeChars ] : k \in 1..MaxTypeLen } : WellFormedTypes(q) }

\* variant of IsTopLevelComma that takes every comma
IsTopLevelComma_Any(c, insideBracketCount) == c = ","

\* the split test of getTypeFields
IsTopLevelComma(c, insideBracketCount) == c = "," /\ insideBracketCount = 0

\* the loop of getTypeFields from position index on (positions from 1) and
\* the append of the rest
RECURSIVE splitFrom(_, _, _, _, _)
splitFrom(fields, index, startSubfieldIndex, insideBracketCount, acc) ==
    IF index > Len(fields)
    THEN IF Len(fields) - startSubfieldIndex + 1 > 0
         THEN Append(acc, SubSeq(fields, startSubfieldIndex, Len(fields)))
         ELSE acc
    ELSE LET split == IsTopLevelComma(fields[index], insideBracketCount)
         IN  splitFrom(fields, index + 1,
                 IF split THEN index + 1 ELSE startSubfieldIndex,
                 IF fields[index] = "<" THEN insideBracketCount + 1
                 ELSE IF fields[index] = ">" THEN insideBracketCount - 1
                 ELSE insideBracketCount,
                 IF split
                 THEN Append(acc, SubSeq(fields, startSubfieldIndex, index - 1))
                 ELSE acc)

\* getTypeFields(complexType, colType)
getTypeFields(cType, cols) ==
    splitFrom(SubSeq(cols, Len(cType) + 2, Len(cols) - 1), 1, 1, 0, << >>)

\* variant of DeferredRestore that leaves the limit as it is
DeferredRestore_None(limit) == limit

\* the deferred function of logDocs
DeferredRestore(limit) == DefaultMaxCommentLength

DocInit ==
    /\ MaxCommentLength = DefaultMaxCommentLength
    /\ docPc = "idle"
    /\ docErr = noErr
    /\ complexType = << >>
    /\ colType = << >>
    /\ subFields = << >>

\* logDocs is called: the limit is raised
LogDocs ==
    /\ docPc = "idle"
    /\ MaxCommentLength' = MaxInt32
    /\ docPc' = "findSupportedLogs"
    /\ docErr' = noErr
    /\ complexType' = << >>
    /\ colType' = << >>
    /\ subFields' = << >>

\* findSupportedLogs returns; on its error logDocs returns
FindSupportedLogs ==
    /\ docPc = "findSupportedLogs"
    /\ \E ok \in BOOLEAN :
         IF ok
         THEN /\ docPc' = "generateDocumentation"
              /\ UNCHANGED << MaxCommentLength, docErr >>
         ELSE /\ docPc' = "returned"
              /\ docErr' = "findSupportedLogs"
              /\ MaxCommentLength' = DeferredRestore(MaxCommentLength)
    /\ UNCHANGED << complexType, colType, subFields >>

\* generateDocumentation pretty-prints a column of a complex type and
\* returns, with an error, or panics; logDocs ends with it
GenerateDocumentation ==
    /\ docPc = "generateDocumentation"
    /\ \E cType \in ComplexTypes, inner \in InnerTypes,
          outcome \in { noErr, "generateDocumentation", "panic" } :
         LET cols == cType \o << "<" >> \o inner \o << ">" >>
         IN  /\ complexType' = cType
             /\ colType' = cols
             /\ subFields' = getTypeFields(cType, cols)
             /\ docErr' = outcome
    /\ docPc' = "returned"
    /\ MaxCommentLength' = DeferredRestore(MaxCommentLength)

\* mage doc is run again
DocAgain ==
    /\ docPc = "returned"
    /\ docPc' = "idle"
    /\ UNCHANGED << MaxCommentLength, docErr, complexType, colType, subFields >>

Init == PollerInit /\ CredInit /\ S3Init /\ ClientInit /\ DeliverInit /\ DocInit

Next ==
    \/ SubmitScan /\ UNCHANGED << credVars, s3Vars, clientVars, deliverVars, docVars >>
    \/ SubmitResourceScan /\ UNCHANGED << credVars, s3Vars, clientVars, deliverVars, docVars >>
    \/ Resubmit /\ UNCHANGED << credVars, s3Vars, clientVars, deliverVars, docVars >>
    \/ Retry /\ UNCHANGED << credVars, s3Vars, clientVars, deliverVars, docVars >>
    \/ Forget /\ UNCHANGED << credVars, s3Vars, clientVars, deliverVars, docVars >>
    \/ GetCloudWatchLogsClient /\ UNCHANGED << credVars, s3Vars, clientVars, deliverVars, docVars >>
    \/ DescribeLogGroupsPage /\ UNCHANGED << credVars, s3Vars, clientVars, deliverVars, docVars >>
    \/ BuildSnapshotOfNext /\ UNCHANGED << credVars, s3Vars, clientVars, deliverVars, docVars >>
    \/ ReturnResources /\ UNCHANGED << credVars, s3Vars, clientVars, deliverVars, docVars >>
    \/ GetLogGroup /\ UNCHANGED << credVars, s3Vars, clientVars, deliverVars, docVars >>
    \/ BuildSnapshotOfGroup /\ UNCHANGED << credVars, s3Vars, clientVars, deliverVars, docVars >>

Spec == Init /\ [][Next]_vars

\* the credential provider alone, no unit submitted
CredSpecInit ==
    /\ pages = << << >> >>
    /\ defaultBatchSize = 1
    /\ PollerParked
    /\ CredInit
    /\ S3Init
    /\ ClientInit
    /\ DeliverInit
    /\ DocInit

CredNext ==
    \/ Obtain /\ UNCHANGED << pollerVars, s3Vars, clientVars, deliverVars, docVars >>
    \/ AssumeRoleReturns /\ UNCHANGED << pollerVars, s3Vars, clientVars, deliverVars, docVars >>
    \/ Tick /\ UNCHANGED << pollerVars, s3Vars, clientVars, deliverVars, docVars >>

CredSpec == CredSpecInit /\ [][CredNext]_vars

\* getS3Client and resetCaches alone
S3SpecInit ==
    /\ pages = << << >> >>
    /\ defaultBatchSize = 1
    /\ PollerParked
    /\ CredInit
    /\ S3Init
    /\ ClientInit
    /\ DeliverInit
    /\ DocInit

S3Next ==
    \/ GetS3Client /\ UNCHANGED << pollerVars, credVars, clientVars, deliverVars, docVars >>
    \/ ResetCaches /\ UNCHANGED << pollerVars, credVars, clientVars, deliverVars, docVars >>

S3Spec == S3SpecInit /\ [][S3Next]_vars

\* getClient alone
ClientSpecInit ==
    /\ pages = << << >> >>
    /\ defaultBatchSize = 1
    /\ PollerParked
    /\ CredInit
    /\ S3Init
    /\ ClientInit
    /\ DeliverInit
    /\ DocInit

ClientNext == GetClient /\ UNCHANGED << pollerVars, credVars, s3Vars, deliverVars, docVars >>

ClientSpec == ClientSpecInit /\ [][ClientNext]_vars

\* DeliverAlert alone
DeliverSpecInit ==
    /\ pages = << << >> >>
    /\ defaultBatchSize = 1
    /\ PollerParked
    /\ CredInit
    /\ S3Init
    /\ ClientInit
    /\ DeliverInit
    /\ DocInit

DeliverNext ==
    \/ DeliverAlert /\ UNCHANGED << pollerVars, credVars, s3Vars, clientVars, docVars >>
    \/ NextInvocation /\ UNCHANGED << pollerVars, credVars, s3Vars, clientVars, docVars >>

DeliverSpec == DeliverSpecInit /\ [][DeliverNext]_vars

\* the documentation generator alone
DocSpecInit ==
    /\ pages = << << >> >>
    /\ defaultBatchSize = 1
    /\ PollerParked
    /\ CredInit
    /\ S3Init
    /\ ClientInit
    /\ DeliverInit
    /\ DocInit

DocNext ==
    \/ LogDocs /\ UNCHANGED << pollerVars, credVars, s3Vars, clientVars, deliverVars >>
    \/ FindSupportedLogs /\ UNCHANGED << pollerVars, credVars, s3Vars, clientVars, deliverVars >>
    \/ GenerateDocumentation /\ UNCHANGED << pollerVars, credVars, s3Vars, clientVars, deliverVars >>
    \/ DocAgain /\ UNCHANGED << pollerVars, credVars, s3Vars, clientVars, deliverVars >>

DocSpec == DocSpecInit /\ [][DocNext]_vars

(***************************************************************************)
(* Properties.                                                             *)
(***************************************************************************)
RECURSIVE SumSeq(_)
SumSeq(q) == IF q = << >> THEN 0 ELSE Head(q) + SumSeq(Tail(q))

Last(q) == q[Len(q)]
NoDuplicates(q) == \A i, j \in 1..Len(q) : q[i] = q[j] => i = j
ArnsOf(gs) == [ i \in 1..Len(gs) |-> gs[i].Arn ]

\* the log groups of n consecutive pages of the provider, starting at page p
GroupsOfPages(p, n) == Flatten(SubSeq(pages, p, p + n - 1))

IsListUnit == op = "PollCloudWatchLogsLogGroups"
IsResourceUnit == op = "PollCloudWatchLogsLogGroup"
Returned == pc = "done"
Succeeded == pc = "done" /\ ret.err = noErr
NoBatch == ret.resources = << >> /\ ret.marker = nil
\* the page the unit started at, and the last page it requested
FirstPage == PageOfToken(NextPageToken)
LastRequestedPage == PageOfToken(Last(pageRequests))
\* what the chain had emitted before the unit in progress started
EmittedBeforeUnit == ArnsOf(GroupsOfPages(1, FirstPage - 1))
FailedCalls(api) == { i \in 1..Len(callLog) : callLog[i].api = api /\ ~callLog[i].ok }

\* C1: idempotent resumption. Along a chain of token-linked units no resource
\* is emitted twice (within a batch or across batches), and when a unit of the
\* chain succeeds without a token the batches emitted by the chain hold exactly
\* the provider's log groups, the set one unit with an unbounded ceiling returns.
C1_IdempotentResumption ==
    IsListUnit =>
        /\ NoDuplicates(Flatten(emitted))
        /\ (Succeeded /\ ret.marker = nil) =>
               Range(Flatten(emitted)) = { g.Arn : g \in Range(AllLogGroups) }

C1_Witness ==
    /\ IsListUnit /\ Succeeded /\ ret.marker = nil
    /\ Len(emitted) >= 2
    /\ Len(emitted[1]) >= 2
    /\ Len(AllLogGroups) >= 4

\* C2: token presence. A successful unit returns a token if and only if the
\* accumulated count reached the ceiling on a page the provider did not mark
\* as its last; when the provider's last page ends the enumeration, also when
\* the ceiling is reached exactly on it, no token is returned.
C2_TokenPresence ==
    (IsListUnit /\ Succeeded) =>
        ( ret.marker # nil <=>
            ( /\ SumSeq(pageSizes) >= defaultBatchSize
              /\ NextTokenOfPage(LastRequestedPage) # nil ) )

C2_Witness ==
    /\ IsListUnit /\ Succeeded
    /\ ret.marker = nil
    /\ SumSeq(pageSizes) = defaultBatchSize
    /\ Len(pageSizes) >= 2

\* C3: token round trip. The first page request of a unit carries the unit's
\* input token unmodified; a returned token is the provider's NextToken of the
\* last page appended; and a unit in progress starts exactly behind what the
\* chain has emitted so far: nothing emitted is requested again, nothing
\* unemitted is skipped.
C3_TokenRoundTrip ==
    IsListUnit =>
        /\ pageRequests # << >> => pageRequests[1] = NextPageToken
        /\ (Succeeded /\ ret.marker # nil) =>
               ret.marker = NextTokenOfPage(LastRequestedPage)
        /\ ~Succeeded => Flatten(emitted) = EmittedBeforeUnit
        /\ Succeeded =>
               Flatten(emitted) =
                   ArnsOf(GroupsOfPages(1, LastRequestedPage))

C3_Witness ==
    /\ IsListUnit /\ Succeeded
    /\ NextPageToken # nil
    /\ ret.marker # nil
    /\ pageRequests = << NextPageToken >>

\* C4: page-boundary ceiling. The groups accumulated by describeLogGroups are
\* always whole provider pages; a further page is requested only while the
\* count is below the ceiling; a batch overshoots the ceiling only by items
\* of its last page; and every emitted batch is a concatenation of whole pages.
C4_PageBoundaryCeiling ==
    IsListUnit =>
        /\ pc \in { "describeLogGroups", "buildSnapshots" } =>
               /\ logGroups = GroupsOfPages(FirstPage, Len(pageSizes))
               /\ Len(logGroups) = SumSeq(pageSizes)
        /\ pc = "describeLogGroups" => Len(logGroups) < defaultBatchSize
        /\ (pc = "buildSnapshots" /\ pageSizes # << >>) =>
               Len(logGroups) - Last(pageSizes) < defaultBatchSize
        /\ Succeeded =>
               Last(emitted) = ArnsOf(GroupsOfPages(FirstPage, Len(pageSizes)))

C4_Witness ==
    /\ IsListUnit /\ Succeeded
    /\ Len(Last(emitted)) > defaultBatchSize
    /\ Len(pageSizes) >= 2
    /\ ret.marker # nil

\* C5: a failed page request is fatal to the unit. As soon as a page request
\* has failed the unit has returned an error with no items and no token, no
\* page was requested twice, no tag call was made and no batch was emitted.
C5_PageErrorIsFatal ==
    (IsListUnit /\ FailedCalls("DescribeLogGroupsPages") # {}) =>
        /\ Returned
        /\ ret.err = "CloudWatchLogs.DescribeLogGroups"
        /\ NoBatch
        /\ FailedCalls("DescribeLogGroupsPages") = { Len(callLog) }
        /\ NoDuplicates(pageRequests)
        /\ tagCalls = << >>
        /\ Flatten(emitted) = EmittedBeforeUnit

C5_Witness ==
    /\ IsListUnit /\ Returned
    /\ FailedCalls("DescribeLogGroupsPages") # {}
    /\ Len(pageSizes) >= 2

\* C6: a failed tag fetch is fatal to the unit. As soon as a ListTagsLogGroup
\* call has failed the unit has returned an error with no batch and no token,
\* and the chain has received no batch from the unit.
C6_TagErrorIsFatal ==
    (IsListUnit /\ \E i \in 1..Len(tagOutcomes) : tagOutcomes[i] # "ok") =>
        /\ Returned
        /\ ret.err # noErr
        /\ NoBatch
        /\ Flatten(emitted) = EmittedBeforeUnit

C6_Witness ==
    /\ IsListUnit /\ Returned
    /\ Len(tagOutcomes) >= 3
    /\ Last(tagOutcomes) = "ThrottlingException"
    /\ NextTokenOfPage(LastRequestedPage) # nil

C8_NotFoundVersusError ==
    (IsResourceUnit /\ Returned /\ describeCalls # << >>) =>
        LET c == describeCalls[1]
            returned == { g.LogGroupName : g \in Range(DescribeLogGroupsOutput(c.prefix)) }
        IN  /\ ~c.ok =>
                 /\ ret.err = "CloudWatchLogs.DescribeLogGroups"
                 /\ ret.resources = << >>
                 /\ tagCalls = << >>
            /\ (c.ok /\ c.prefix \notin returned) =>
                 /\ ret.err = noErr
                 /\ ret.resources = << >>
                 /\ tagCalls = << >>

C8_Witness ==
    /\ IsResourceUnit /\ Returned /\ describeCalls # << >>
    /\ describeCalls[1].ok
    /\ DescribeLogGroupsOutput(describeCalls[1].prefix) # << >>
    /\ \A g \in Range(DescribeLogGroupsOutput(describeCalls[1].prefix)) :
           g.LogGroupName # describeCalls[1].prefix
    /\ ret.err = noErr

\* the step of the unit a call belongs to
StepOf(api) ==
    CASE api = "getClient" -> 1
      [] api = "DescribeLogGroupsPages" -> 2
      [] api = "DescribeLogGroups" -> 2
      [] api = "ListTagsLogGroup" -> 3

\* C9: step ordering. The calls of a unit are made in the order client
\* acquisition, page enumeration, per-item normalization: the client is
\* obtained first and once, no page is requested after a tag call, a failed
\* call is the last call of the unit and leaves an error with no resources
\* and no token, and a successful result holds one entry for each enumerated
\* log group, each normalized by its own tag call.
C9_StepOrdering ==
    IsListUnit =>
        /\ callLog # << >> => callLog[1].api = "getClient"
        /\ \A i, j \in 1..Len(callLog) :
               i < j => StepOf(callLog[i].api) < StepOf(callLog[j].api)
                        \/ ( /\ callLog[i].api = callLog[j].api
                             /\ callLog[i].api # "getClient" )
        /\ \A i \in 1..Len(callLog) :
               ~callLog[i].ok =>
                   /\ i = Len(callLog)
                   /\ Returned /\ ret.err # noErr /\ NoBatch
        /\ pc = "getClient" => callLog = << >>
        /\ pc = "describeLogGroups" => tagCalls = << >>
        /\ Succeeded =>
               /\ pageRequests # << >>
               /\ Len(ret.resources) = SumSeq(pageSizes)
               /\ Len(tagCalls) = SumSeq(pageSizes)
               /\ \A i \in 1..Len(callLog) : callLog[i].ok

C9_Witness ==
    /\ IsListUnit /\ Succeeded
    /\ Len(pageRequests) >= 2
    /\ Len(tagCalls) >= 3

CallersOf(r) == { p \in Callers : caller[p].pc # "idle" /\ caller[p].role = r }

\* C10: cache coalescing. When all requests made so far for an AccountRole
\* were made while no cached entry existed and none has failed, exactly one
\* upstream assume-role call was issued for it, every caller still waiting
\* waits on that call, and all results handed out are the same credential.
C10_CacheCoalescing ==
    \A r \in AccountRoles :
        ( /\ CallersOf(r) # {}
          /\ \A p \in CallersOf(r) : ~caller[p].sawEntry /\ caller[p].pc # "failed" ) =>
            /\ assumeCalls[r] = 1
            /\ \A p \in CallersOf(r) : caller[p].pc = "waiting" => inflight[r]
            /\ \A p, q \in CallersOf(r) :
                   (caller[p].pc = "got" /\ caller[q].pc = "got") =>
                       caller[p].id = caller[q].id

C10_Witness ==
    \E r \in AccountRoles :
        /\ CallersOf(r) = Callers
        /\ \A p \in Callers : caller[p].pc = "got" /\ ~caller[p].sawEntry
        /\ assumeCalls[r] = 1


(***************************************************************************)
(* getS3Client and its caches.                                             *)
(***************************************************************************)
\* the buckets of the calls that succeeded since the reset, in order
RECURSIVE BucketsServed(_)
BucketsServed(h) ==
    IF h = << >> THEN << >>
    ELSE (IF Head(h).err = noErr THEN << Head(h).bucket >> ELSE << >>)
         \o BucketsServed(Tail(h))

SameBucketAndIntegration(k) ==
    \A i \in 1..k :
        /\ s3History[i].bucket = s3History[1].bucket
        /\ s3History[i].integration = s3History[1].integration
        /\ s3History[i].err = noErr

\* C12: after a reset, k >= 1 successful getS3Client calls for the same
\* bucket and integration issue GetBucketLocation in the first call only,
\* and each returns a client, with or without an S3 prefix.
C12_RegionMemoization ==
    \A k \in 1..Len(s3History) :
        SameBucketAndIntegration(k)
            => \A i \in 1..k :
                   /\ s3History[i].located = (i = 1)
                   /\ Len(s3History[i].client) = 1
                   /\ s3History[i].client[1].role
                        = s3History[i].integration.LogProcessingRole
                   /\ s3History[i].client[1].region
                        = BucketRegion(s3History[i].bucket)

\* three calls for one bucket of the integration without prefix
C12_Witness ==
    /\ Len(s3History) >= 3
    /\ SameBucketAndIntegration(3)
    /\ s3History[1].integration.S3Prefix = ""

(***************************************************************************)
(* getClient.                                                              *)
(***************************************************************************)
\* C13: a getClient request made for one AccountRole never receives a
\* handle that was built for another, also when service and region are
\* the same: a served request receives a handle of its own service, region
\* and role.
C13_CacheIsolation ==
    \A i \in 1..Len(clientRequests) :
        clientRequests[i].err = noErr
            => /\ Len(clientRequests[i].client) = 1
               /\ clientRequests[i].client[1] = clientRequests[i].request

\* two roles were served a client of the same service and region
C13_Witness ==
    \E i, j \in 1..Len(clientRequests) :
        /\ i < j
        /\ clientRequests[i].err = noErr
        /\ clientRequests[j].err = noErr
        /\ clientRequests[i].request.service = clientRequests[j].request.service
        /\ clientRequests[i].request.region = clientRequests[j].request.region
        /\ clientRequests[i].request.AccountRole # clientRequests[j].request.AccountRole
        /\ Cardinality(Keys(clientCache)) = CacheSize

(***************************************************************************)
(* Snapshots and batches of the log group poller.                          *)
(***************************************************************************)
\* the snapshots the unit has built or returned
Snapshots ==
    IF IsListUnit
    THEN { resources[i].Attributes : i \in 1..Len(resources) }
         \cup { ret.resources[i].Attributes : i \in 1..Len(ret.resources) }
    ELSE Range(ret.resources)

\* the provider's CreationTime of the log group of a name
CreationTimeOf(name) ==
    CreationTimes[CHOOSE i \in 1..Len(NameUniverse) : NameUniverse[i] = name]

\* C14: timestamp truncation. TimeCreated of every snapshot is the
\* provider's millisecond creation time divided by 1000 and rounded down:
\* never the millisecond value itself, never rounded up, whatever the
\* remainder.
C14_TimestampTruncation ==
    \A sn \in Snapshots :
        /\ sn.TimeCreated * 1000 <= CreationTimeOf(sn.Name)
        /\ CreationTimeOf(sn.Name) < (sn.TimeCreated + 1) * 1000

\* a snapshot was returned for a log group created 500 ms or more into a second
C14_Witness ==
    /\ Succeeded
    /\ \E sn \in Snapshots :
         /\ CreationTimeOf(sn.Name) % 1000 >= 500
         /\ CreationTimeOf(sn.Name) >= 1000

\* the provider calls that read
ReadOnlyAPIs == { "DescribeLogGroups", "DescribeLogGroupsPages", "ListTagsLogGroup" }

\* C15: read-only core. The handlers call no provider operation other than
\* DescribeLogGroups, DescribeLogGroupsPages and ListTagsLogGroup, and no
\* step changes what the provider holds.
C15_ReadOnlyCore ==
    /\ [](\A i \in 1..Len(callLog) :
            callLog[i].api # "getClient" => callLog[i].api \in ReadOnlyAPIs)
    /\ [][pages' = pages]_vars

\* a unit of each kind has made all of its provider calls
C15_Witness ==
    /\ Succeeded
    /\ AllLogGroups # << >>
    /\ { callLog[i].api : i \in 1..Len(callLog) } \ { "getClient" }
         \in { { "DescribeLogGroupsPages", "ListTagsLogGroup" },
               { "DescribeLogGroups", "ListTagsLogGroup" } }

\* every page of the provider but the last holds n log groups
UniformPages(n) ==
    /\ \A k \in 1..(Len(pages) - 1) : Len(pages[k]) = n
    /\ Len(pages[Len(pages)]) <= n

\* the provider's page size divides the ceiling
PageSizeDividesCeiling ==
    \E n \in 1..defaultBatchSize :
        /\ defaultBatchSize % n = 0
        /\ UniformPages(n)

\* C16: batch sizes along a chain. When the provider's page size divides the
\* ceiling, every unit that returns a token returns exactly ceiling items,
\* and a chain over N >= 1 log groups ends after ceil(N / ceiling) units: 5
\* log groups under a ceiling of 2 come as batches of 2, 2 and 1.
C16_BatchSizes ==
    (IsListUnit /\ PageSizeDividesCeiling) =>
        /\ \A i \in 1..(Len(emitted) - 1) : Len(emitted[i]) = defaultBatchSize
        /\ (Succeeded /\ ret.marker # nil) =>
               Len(ret.resources) = defaultBatchSize
        /\ (Succeeded /\ ret.marker = nil /\ AllLogGroups # << >>) =>
               /\ (Len(emitted) - 1) * defaultBatchSize < Len(AllLogGroups)
               /\ Len(AllLogGroups) <= Len(emitted) * defaultBatchSize

\* five log groups under a ceiling of two: batches of 2, 2 and 1
C16_Witness ==
    /\ IsListUnit /\ Succeeded /\ ret.marker = nil
    /\ PageSizeDividesCeiling
    /\ defaultBatchSize = 2
    /\ Len(AllLogGroups) = 5
    /\ [ i \in 1..Len(emitted) |-> Len(emitted[i]) ] = << 2, 2, 1 >>

\* C17: batch shape. A successful unit returns one entry per log group it
\* enumerated, in enumeration order; each entry's ID is the log group's ARN,
\* its IntegrationID the unit's, its Type the log group schema, and its
\* snapshot carries the unit's account ID and region.
C17_BatchShape ==
    (IsListUnit /\ Succeeded) =>
        LET gs == GroupsOfPages(FirstPage, Len(pageSizes))
        IN  /\ Len(ret.resources) = Len(gs)
            /\ \A i \in 1..Len(gs) :
                   /\ ret.resources[i].ID = gs[i].Arn
                   /\ ret.resources[i].IntegrationID = PollerIntegrationID
                   /\ ret.resources[i].Type = CloudWatchLogGroupSchema
                   /\ ret.resources[i].Attributes.ARN = gs[i].Arn
                   /\ ret.resources[i].Attributes.Name = gs[i].LogGroupName
                   /\ ret.resources[i].Attributes.AccountID = PollerAccountID
                   /\ ret.resources[i].Attributes.Region = PollerRegion

\* a resumed unit returned three entries gathered from two pages
C17_Witness ==
    /\ IsListUnit /\ Succeeded
    /\ NextPageToken # nil
    /\ Len(pageSizes) = 2
    /\ Len(ret.resources) = 3

\* the provider holds a log group of exactly this name
Exists(name) == \E g \in Range(AllLogGroups) : g.LogGroupName = name

\* the names the provider holds that start with the given one
Sharing(name) ==
    { g \in Range(AllLogGroups) : IsPrefix(name, g.LogGroupName) }

NamesOfResource(resource) ==
    { NameUniverse[i] : i \in
        { j \in 1..Len(NameUniverse) :
            \/ resource = << "log-group:" >> \o NameUniverse[j] \o << ":", "*" >>
            \/ resource = << "log-group:" >> \o NameUniverse[j] } }

\* the poll of one log group returned its snapshot
ReturnedSnapshot == Succeeded /\ ret.resources # << >>

\* C19: single-resource poll effects. The name looked up is the ARN's
\* resource without the "log-group:" prefix and without everything from the
\* first following ":"; on success the snapshot's Region and AccountID are
\* the ARN's and the request's ResourceID has become the snapshot's ARN; on
\* every other outcome the ResourceID is unchanged.
C19_SingleResourceEffects ==
    IsResourceUnit =>
        /\ describeCalls # << >> =>
               NamesOfResource(resourceARN) = { describeCalls[1].prefix }
        /\ ReturnedSnapshot =>
               /\ ret.resources[1].Region = ARNRegion
               /\ ret.resources[1].AccountID = ARNAccountID
               /\ scanRequestResourceID = ret.resources[1].ARN
        /\ ~ReturnedSnapshot => scanRequestResourceID = resourceARN

\* a poll for an ARN without the ":*" suffix returned the snapshot
C19_Witness ==
    /\ IsResourceUnit /\ ReturnedSnapshot
    /\ scanRequestResourceID # resourceARN
    /\ Len(describeCalls[1].prefix) = 2

(***************************************************************************)
(* DeliverAlert.                                                           *)
(***************************************************************************)
\* the requested ids that some configured output has, and those none has
RECURSIVE Matching(_, _, _)
Matching(ids, outs, wanted) ==
    IF ids = << >> THEN << >>
    ELSE (IF contains(outs, Head(ids)) = wanted THEN << Head(ids) >> ELSE << >>)
         \o Matching(Tail(ids), outs, wanted)

\* C20: validateInputs partitions the requested ids: invalid holds the
\* requested ids that no configured output has, and valid holds, for each
\* requested id that some configured output has, the output of that id,
\* whatever the order of the configured outputs.
C20_ValidateInputsPartitions ==
    (validated # << >> /\ ~validated[1].panic) =>
        /\ validated[1].invalid = Matching(inputOutputIds, outputIds, FALSE)
        /\ [ i \in 1..Len(validated[1].valid) |-> validated[1].valid[i].OutputID ]
             = Matching(inputOutputIds, outputIds, TRUE)

\* the request is one DeliverAlert rejects: the alert lookup failed, the
\* alert was not found, the outputs could not be fetched, or a requested id
\* is not the id of a configured output
Rejected ==
    \/ fetched.GetAlert \in { "error", "not found" }
    \/ fetched.GetOutputs = "error"
    \/ /\ fetched.GetOutputs = "ok"
       /\ \E i \in 1..Len(inputOutputIds) : ~contains(outputIds, inputOutputIds[i])

Called == deliverRet # NotCalled
ReturnedError == ~deliverRet.panic /\ deliverRet.err # noErr /\ deliverRet.summary = << >>
ReturnedSummary == ~deliverRet.panic /\ deliverRet.err = noErr /\ deliverRet.summary # << >>

\* C21: DeliverAlert delivers nothing on a rejected request: it returns an
\* error and no summary and never invokes delivery.DeliverAlerts; and it
\* returns a summary only if every dispatch status reports success.
C21_RejectedDeliversNothing ==
    Called =>
        /\ Rejected => (ReturnedError /\ dispatched = << >>)
        /\ deliverRet.summary # << >> =>
               /\ dispatchStatuses # << >>
               /\ \A i \in 1..Len(dispatchStatuses) : dispatchStatuses[i].Success

\* C22: DeliverAlert never indexes out of range: whatever the request, also
\* with no output ids, repeated ids or more ids than configured outputs, it
\* ends with an error or with a summary.
C22_NoIndexOutOfRange ==
    Called =>
        /\ validated # << >> => ~validated[1].panic
        /\ ReturnedError \/ ReturnedSummary

(***************************************************************************)
(* The documentation generator.                                            *)
(***************************************************************************)
LogDocsRuns == docPc \in { "findSupportedLogs", "generateDocumentation" }

\* C23: logDocs restores the global comment limit. MaxCommentLength is at
\* the maximum only while logDocs runs; when logDocs has returned, on
\* success, on the error of findSupportedLogs and on the error or panic of
\* generateDocumentation, it is DefaultMaxCommentLength again.
C23_RestoresCommentLimit ==
    /\ LogDocsRuns => MaxCommentLength = MaxInt32
    /\ ~LogDocsRuns => MaxCommentLength = DefaultMaxCommentLength

\* logDocs has returned the error of generateDocumentation
C23_Witness ==
    /\ docPc = "returned"
    /\ docErr = "generateDocumentation"
    /\ MaxCommentLength = DefaultMaxCommentLength

\* strings.Join(ss, ",")
RECURSIVE JoinComma(_)
JoinComma(ss) ==
    IF ss = << >> THEN << >>
    ELSE IF Len(ss) = 1 THEN ss[1]
    ELSE ss[1] \o << "," >> \o JoinComma(Tail(ss))

\* what the column type of the last call holds between its brackets
Inner == SubSeq(colType, Len(complexType) + 2, Len(colType) - 1)

\* the commas of q that are inside no bracket
TopLevelCommas(q) == { i \in 1..Len(q) : q[i] = "," /\ DepthAt(q, i) = 0 }

GetTypeFieldsCalled == colType # << >>

\* C24: getTypeFields splits only at top-level commas. For a well-formed
\* complex type T<inner> the sub-fields joined with "," are inner, every
\* sub-field has balanced brackets, and there is one sub-field more than
\* inner has commas outside brackets.
C24_SplitsAtTopLevelCommas ==
    GetTypeFieldsCalled =>
        /\ JoinComma(subFields) = Inner
        /\ \A i \in 1..Len(subFields) : Balanced(subFields[i])
        /\ Len(subFields) = Cardinality(TopLevelCommas(Inner)) + 1

\* a type with a comma inside brackets and one outside was split
C24_Witness ==
    /\ GetTypeFieldsCalled
    /\ Cardinality(TopLevelCommas(Inner)) = 1
    /\ \E i \in 1..Len(Inner) : Inner[i] = "," /\ DepthAt(Inner, i) > 0
    /\ Len(subFields) = 2

====
